---- MODULE Spec2Model ----
(***************************************************************************)
(* The web front end of the job queue (package web): the six HTTP handlers *)
(* registered by WebStart and the Redis store they query and mutate.       *)
(*                                                                         *)
(* A Go string is modelled as a sequence of atoms.  The atom ":" is the    *)
(* separator character; every other atom stands for a non-empty piece of   *)
(* text that contains no ':'.  Concatenation of strings is \o.             *)
(***************************************************************************)
EXTENDS Integers, Sequences, FiniteSets

VARIABLES lists, hashes, resp, reply

\* lists:  the Redis lists, by key (a missing key is the empty list)
\* hashes: the Redis hashes, by key: the running hash of each queue, the
\*         worker registry and the job log
\* resp:   the response to the last request served
\* reply:  Redis' reply to the last LREM or LPUSH
vars == <<lists, hashes, resp, reply>>
store == <<lists, hashes>>

-----------------------------------------------------------------------------
(* Bounds *)

\* longest Pending list the administrative requeue is allowed to build
MaxLen == 2
\* longest list of the pagination scenarios
MaxPageList == 22

-----------------------------------------------------------------------------
(* Strings *)

Min(a, b) == IF a < b THEN a ELSE b
Max(a, b) == IF a > b THEN a ELSE b

Range(s) == {s[i] : i \in 1..Len(s)}

\* all orders in which a Go map with key set S may be iterated
Orders(S) == {s \in [1..Cardinality(S) -> S] : Range(s) = S}

\* strings.Split(s, ":")
RECURSIVE Split(_)
Split(s) ==
  IF \A i \in 1..Len(s) : s[i] # ":"
    THEN <<s>>
    ELSE LET i == CHOOSE k \in 1..Len(s) :
                    s[k] = ":" /\ \A j \in 1..(k - 1) : s[j] # ":"
         IN  <<SubSeq(s, 1, i - 1)>> \o Split(SubSeq(s, i + 1, Len(s)))

\* strings.HasPrefix(s, p)
HasPrefix(s, p) == Len(s) >= Len(p) /\ SubSeq(s, 1, Len(p)) = p

-----------------------------------------------------------------------------
(* Configuration and key space *)

\* cfg.CustomQueues.Queues: the configured queue names, one atom each
Queues == {"q1", "q2"}
\* cfg.ClusterName: the key of the worker registry hash
ClusterName == <<"cluster">>
\* cfg.CustomQueues.Queues[q].Concurrency
Concurrency == [q \in Queues |-> IF q = "q1" THEN 1 ELSE 2]
JobLogKey == <<"badger", ":", "joblog">>

ListCollections == {"pending", "delayed", "failed", "done"}
QueueKey(coll, q) == <<"badger", ":", coll, ":", q>>
RunningKey(q) == QueueKey("running", q)

ListKeys == {QueueKey(c, q) : c \in ListCollections, q \in Queues}
HashKeys == {RunningKey(q) : q \in Queues} \cup {ClusterName, JobLogKey}

-----------------------------------------------------------------------------
(* Redis commands *)

\* LLEN key: 0 for a missing key, an error (result 0) for a key of another type
LLen(key) == IF key \in ListKeys THEN Len(lists[key]) ELSE 0

\* HLEN key
HLen(key) == IF key \in HashKeys THEN Cardinality(DOMAIN hashes[key]) ELSE 0

\* HGETALL key
HGetAll(key) == IF key \in HashKeys THEN hashes[key] ELSE << >>

\* HGET key field: "" for a missing field
HGet(key, field) ==
  IF key \in HashKeys /\ field \in DOMAIN hashes[key]
    THEN hashes[key][field] ELSE << >>

\* LRANGE key start stop: both ends inclusive, negative indexes count from the tail
LRange(key, start, stop) ==
  IF key \notin ListKeys THEN << >>
  ELSE LET l  == lists[key]
           n  == Len(l)
           s0 == IF start < 0 THEN Max(n + start, 0) ELSE start
           e0 == IF stop < 0 THEN n + stop ELSE stop
           e1 == Min(e0, n - 1)
       IN  IF s0 > e0 \/ s0 >= n THEN << >> ELSE SubSeq(l, s0 + 1, e1 + 1)

\* the list l without the first count elements equal to value (count > 0)
RECURSIVE RemoveFirst(_, _, _)
RemoveFirst(l, count, value) ==
  IF l = << >> \/ count = 0 THEN l
  ELSE IF Head(l) = value THEN RemoveFirst(Tail(l), count - 1, value)
  ELSE <<Head(l)>> \o RemoveFirst(Tail(l), count, value)

\* LREM as if called with count 0: every element equal to value is removed
LRemEveryMatch(key, count, value) ==
  IF key \in ListKeys
    THEN [lists EXCEPT ![key] = RemoveFirst(@, Len(@), value)]
    ELSE lists

\* LREM key count value, the lists after it; no effect on a key that is no list
LRem(key, count, value) ==
  IF key \in ListKeys
    THEN [lists EXCEPT ![key] = RemoveFirst(@, count, value)]
    ELSE lists

\* the integer reply of LREM: the number of elements removed
LRemReply(key, count, value) ==
  IF key \in ListKeys
    THEN Len(lists[key]) - Len(RemoveFirst(lists[key], count, value))
    ELSE 0

\* LPUSH key value, the lists after it: value becomes the head; no effect on a
\* key that holds a hash (ListKeys has every other key a request here names)
LPush(key, value) ==
  IF key \in ListKeys
    THEN [lists EXCEPT ![key] = <<value>> \o @]
    ELSE lists

-----------------------------------------------------------------------------
(* Requests and responses *)

NoText == << >>

\* values of the query parameters: jobid, job and operation of /requeueOrDelete,
\* queuename of /requeueOrDelete and of /inspectQueue, logid of /inspectJob
JobIdParams == {NoText, <<"1">>, <<"2">>}
JobParams == {<<"a">>, <<"1", ":", "a">>}
OperationParams == {<<"delete">>, <<"requeue">>}
AdminQueueNames ==
  {QueueKey(c, "q1") : c \in {"pending", "failed", "done", "running"}}
    \cup {<<"badger", ":", "failed">>}
InspectQueueNames == AdminQueueNames \cup {QueueKey("failed", "q2")}
\* the start parameter as strconv.ParseInt reads it: <<n>>, or << >> on a parse error
StartParams == {<< >>, <<-1>>, <<10>>}
LogIdParams == {NoText, <<"log1">>}

NoResponse == [handler |-> "", template |-> "", data |-> << >>]
NoReply == [cmd |-> "", n |-> 0]

-----------------------------------------------------------------------------
(* Handlers *)

RECURSIVE Sum(_)
Sum(s) == IF s = << >> THEN 0 ELSE Head(s) + Sum(Tail(s))

\* GET /
homepage ==
  \E order \in Orders(Queues) :
    /\ resp' =
         [handler |-> "homepage", template |-> "home.html",
          data |->
            [CustomQueues |-> order,
             WorkersCount |-> HLen(ClusterName),
             RunningCount |-> Sum([i \in 1..Len(order) |-> HLen(RunningKey(order[i]))]),
             DoneCount |-> Sum([i \in 1..Len(order) |-> LLen(QueueKey("done", order[i]))]),
             FailedCount |-> Sum([i \in 1..Len(order) |-> LLen(QueueKey("failed", order[i]))])]]
    /\ UNCHANGED <<lists, hashes, reply>>

\* GET /allworkers
getWorkers ==
  LET allworkers == HGetAll(ClusterName) IN
  \E order \in Orders(DOMAIN allworkers) :
    /\ resp' =
         [handler |-> "getWorkers", template |-> "allworkers.html",
          data |->
            [Name |-> "Workers",
             Workers |-> [i \in 1..Len(order) |->
                            [WorkerName |-> order[i], HbMetaData |-> allworkers[order[i]]]]]]
    /\ UNCHANGED <<lists, hashes, reply>>

\* GET /showQueuePreview
showQueuePreview ==
  \E order \in Orders(Queues) :
    /\ resp' =
         [handler |-> "showQueuePreview", template |-> "jobs.html",
          data |->
            [AllQueues |-> [i \in 1..Len(order) |->
               [Name |-> order[i],
                Concurrency |-> Concurrency[order[i]],
                PendingLen |-> LLen(QueueKey("pending", order[i])),
                RunningLen |-> HLen(RunningKey(order[i])),
                DelayedLen |-> LLen(QueueKey("delayed", order[i])),
                FailedLen |-> LLen(QueueKey("failed", order[i])),
                DoneLen |-> LLen(QueueKey("done", order[i]))]]]]
    /\ UNCHANGED <<lists, hashes, reply>>

jobsRange == 10

\* the id shown for a list entry v: s[0] when v holds a ':', "" otherwise
EntryId(v) == IF Len(Split(v)) > 1 THEN Split(v)[1] ELSE NoText
\* the job shown for a list entry v: s[1] when v holds a ':', v otherwise
EntryJob(v) == IF Len(Split(v)) > 1 THEN Split(v)[2] ELSE v

\* the page inspectQueue renders for queueName from start, given the order in
\* which the fields of a running hash are iterated
QueuePage(queueName, start, order) ==
  LET stop == start + jobsRange
      res  == LRange(queueName, start, stop)
      prev == start - jobsRange
  IN  IF HasPrefix(queueName, <<"badger", ":", "running">>)
        THEN [Jobs |-> order, JobsID |-> << >>, Total |-> HLen(queueName),
              Name |-> queueName,
              PrevStart |-> IF prev < 0 THEN 0 ELSE prev, NextStart |-> stop]
        ELSE [Jobs |-> [i \in 1..Len(res) |-> EntryJob(res[i])],
              JobsID |-> [i \in 1..Len(res) |-> EntryId(res[i])],
              Total |-> LLen(queueName),
              Name |-> queueName,
              PrevStart |-> IF prev < 0 THEN 0 ELSE prev, NextStart |-> stop]

\* inspectQueue reading its page with LTRIM in place of LRANGE: the list is cut
\* down to the page
inspectQueueTrimming(queueName, startStr, hx) ==
  LET start == IF startStr = << >> THEN 0 ELSE startStr[1] IN
  \E order \in Orders(DOMAIN HGetAll(queueName)) :
    /\ resp' =
         [handler |-> "inspectQueue",
          template |-> IF hx THEN "inspectQueue.html" ELSE "inspectQueueFull.html",
          data |-> QueuePage(queueName, start, order)]
    /\ lists' = IF queueName \in ListKeys
                  THEN [lists EXCEPT ![queueName] =
                          LRange(queueName, start, start + jobsRange)]
                  ELSE lists
    /\ UNCHANGED <<hashes, reply>>

\* GET /inspectQueue?queuename=..&start=..  (hx: the Hx-Request header is set)
inspectQueue(queueName, startStr, hx) ==
  LET start == IF startStr = << >> THEN 0 ELSE startStr[1] IN
  \E order \in Orders(DOMAIN HGetAll(queueName)) :
    /\ resp' =
         [handler |-> "inspectQueue",
          template |-> IF hx THEN "inspectQueue.html" ELSE "inspectQueueFull.html",
          data |-> QueuePage(queueName, start, order)]
    /\ UNCHANGED <<lists, hashes, reply>>

\* GET /inspectJob?logid=..
inspectJob(logid, hx) ==
  LET res == HGet(JobLogKey, logid) IN
    /\ resp' =
         [handler |-> "inspectJob",
          template |-> IF hx THEN "joblogs.html" ELSE "joblogsfull.html",
          data |-> [Logs |-> IF res = NoText
                               THEN <<"Logging is set to false in config file">>
                               ELSE res]]
    /\ UNCHANGED <<lists, hashes, reply>>

\* GET /requeueOrDelete?jobid=..&job=..&queuename=..&operation=..
requeueOrDelete(jobId, job, queueName, operation) ==
  LET s == Split(queueName)
      pendingQueue == s[1] \o <<":", "pending", ":">> \o s[3]
  IN
    /\ IF operation = <<"delete">>
         THEN /\ lists' = LRem(queueName, 1, jobId \o <<":">> \o job)
              /\ reply' = [cmd |-> "LREM",
                           n |-> LRemReply(queueName, 1, jobId \o <<":">> \o job)]
         ELSE IF Len(s) = 3
           THEN /\ LLen(pendingQueue) < MaxLen
                /\ lists' = LPush(pendingQueue, job)
                /\ reply' = [cmd |-> "LPUSH", n |-> LLen(pendingQueue) + 1]
           ELSE UNCHANGED <<lists, reply>>
    /\ resp' =
         [handler |-> "requeueOrDelete", template |-> "",
          data |-> [Status |-> 301, Location |-> [start |-> 0, queuename |-> queueName]]]
    /\ UNCHANGED hashes

-----------------------------------------------------------------------------
(* Initial stores *)

\* list entries as the worker writes them: "id:payload", a payload that itself
\* holds a ':', and an entry without an id
InitEntries == << <<"1", ":", "a">>, <<"2", ":", "a", ":", "b">>, <<"a">> >>

\* the collections of queue q1 an initial job may be in
Places == {QueueKey(c, "q1") : c \in {"pending", "failed", "done"}}

\* what the running hashes, queue q2, the worker registry and the job log hold
Running == [e \in {<<"3", ":", "a">>} |-> <<"heartbeat">>]
Q2Failed == <<(<<"1", ":", "a">>)>>
Workers == [w \in {<<"w1">>, <<"w2">>} |-> <<"meta">>]
JobLog == [l \in {<<"log1">>} |-> <<"line">>]

\* the entries placed in key k, in the order of entries
Placed(entries, place, k) ==
  LET RECURSIVE Pick(_)
      Pick(i) == IF i > Len(entries) THEN << >>
                 ELSE (IF place[entries[i]] = k THEN <<entries[i]>> ELSE << >>)
                        \o Pick(i + 1)
  IN  Pick(1)

\* every job of q1 is in one of its collections
Init ==
  /\ \E place \in [Range(InitEntries) -> Places] :
       lists = [k \in ListKeys |->
                  IF k = QueueKey("failed", "q2") THEN Q2Failed
                  ELSE Placed(InitEntries, place, k)]
  /\ hashes = [k \in HashKeys |->
                 IF k = ClusterName THEN Workers
                 ELSE IF k = JobLogKey THEN JobLog
                 ELSE IF k = RunningKey("q1") THEN Running
                 ELSE << >>]
  /\ resp = NoResponse
  /\ reply = NoReply

Next ==
  \/ homepage
  \/ getWorkers
  \/ showQueuePreview
  \/ \E queueName \in InspectQueueNames, start \in StartParams, hx \in BOOLEAN :
       inspectQueue(queueName, start, hx)
  \/ \E logid \in LogIdParams, hx \in BOOLEAN : inspectJob(logid, hx)
  \/ \E jobId \in JobIdParams, job \in JobParams,
        queueName \in AdminQueueNames, operation \in OperationParams :
       requeueOrDelete(jobId, job, queueName, operation)

Spec == Init /\ [][Next]_vars

-----------------------------------------------------------------------------
(* Paging through one long list *)

\* the i-th entry of a long list: an id of i characters, ':' and a payload
PageEntry(i) == [k \in 1..i |-> "x"] \o <<":", "a">>

InitPaging ==
  /\ \E queueName \in Places, n \in 0..MaxPageList :
       lists = [k \in ListKeys |->
                  IF k = queueName THEN [i \in 1..n |-> PageEntry(i)] ELSE << >>]
  /\ hashes = [k \in HashKeys |->
                 IF k = ClusterName THEN Workers
                 ELSE IF k = JobLogKey THEN JobLog
                 ELSE IF k = RunningKey("q1") THEN Running
                 ELSE << >>]
  /\ resp = NoResponse
  /\ reply = NoReply

\* the first page of a collection, as a full page
FirstPage == \E queueName \in Places : inspectQueue(queueName, <<0>>, FALSE)

\* the link to the next page of the page shown
NextPage ==
  /\ resp.handler = "inspectQueue"
  /\ resp.data.NextStart <= MaxPageList
  /\ inspectQueue(resp.data.Name, <<resp.data.NextStart>>, TRUE)

\* the link to the previous page of the page shown
PrevPage ==
  /\ resp.handler = "inspectQueue"
  /\ inspectQueue(resp.data.Name, <<resp.data.PrevStart>>, TRUE)

NextPaging == FirstPage \/ NextPage \/ PrevPage

SpecPaging == InitPaging /\ [][NextPaging]_vars

-----------------------------------------------------------------------------
(* Properties *)

CollectionsOf(q) == {QueueKey(c, q) : c \in ListCollections} \cup {RunningKey(q)}

\* the job ids held by the collection stored under key k
IdsIn(k) ==
  (IF k \in ListKeys THEN {EntryId(e) : e \in Range(lists[k])}
   ELSE {EntryId(f) : f \in DOMAIN hashes[k]}) \ {NoText}

\* the payload of a stored entry: the text after the id and its ':'
EntryPayload(v) ==
  IF \E i \in 1..Len(v) : v[i] = ":"
    THEN LET i == CHOOSE k \in 1..Len(v) : v[k] = ":" /\ \A j \in 1..(k - 1) : v[j] # ":"
         IN  SubSeq(v, i + 1, Len(v))
    ELSE v

Count(l, v) == Cardinality({i \in 1..Len(l) : l[i] = v})
RECURSIVE SumOver(_, _)
SumOver(S, f) ==
  IF S = {} THEN 0
  ELSE LET x == CHOOSE y \in S : TRUE IN f[x] + SumOver(S \ {x}, f)

\* the number of entries of all collections of all queues
TotalEntries(ls, hs) ==
  SumOver(ListKeys, [k \in ListKeys |-> Len(ls[k])])
    + SumOver({RunningKey(q) : q \in Queues},
              [k \in {RunningKey(q) : q \in Queues} |-> Cardinality(DOMAIN hs[k])])

\* the Pending list of the queue that queueName names a collection of
PendingOf(queueName) ==
  Split(queueName)[1] \o <<":", "pending", ":">> \o Split(queueName)[3]
FailedOrDone == {QueueKey(c, q) : c \in {"failed", "done"}, q \in Queues}

\* the response shown is a page of a list collection
ListPageShown ==
  /\ resp.handler = "inspectQueue"
  /\ resp.data.Name \in ListKeys

\* the stored entry behind row i of the page shown
Listed(i) ==
  LRange(resp.data.Name, resp.data.NextStart - jobsRange, resp.data.NextStart)[i]

\* the step is the request the page shown offers for its row i
ListedRequest(i, operation) ==
  requeueOrDelete(resp.data.JobsID[i], resp.data.Jobs[i], resp.data.Name, operation)

\* C1: no job id is in two collections of the same queue at once
C1_MutualExclusion ==
  \A q \in Queues : \A k1, k2 \in CollectionsOf(q) :
    k1 # k2 => IdsIn(k1) \cap IdsIn(k2) = {}

\* C2: a requeue of an entry listed from Failed or Done moves it: the source
\* loses the entry, Pending gains one entry and the number of entries of the
\* store stays the same
C2_RequeueMoves ==
  [][ListPageShown /\ resp.data.Name \in FailedOrDone =>
       \A i \in 1..Len(resp.data.Jobs) :
         ListedRequest(i, <<"requeue">>) =>
           /\ Count(lists'[resp.data.Name], Listed(i))
                = Count(lists[resp.data.Name], Listed(i)) - 1
           /\ Len(lists'[PendingOf(resp.data.Name)])
                = Len(lists[PendingOf(resp.data.Name)]) + 1
           /\ TotalEntries(lists', hashes') = TotalEntries(lists, hashes)]_vars

\* C3: a delete on a list collection that holds the entry jobid:job removes
\* exactly one such entry, keeps the other entries of the collection in their
\* order and changes no other collection
C3_DeleteRemovesOne ==
  [][\A jobId \in JobIdParams, job \in JobParams, queueName \in AdminQueueNames \cap ListKeys :
       LET v == jobId \o <<":">> \o job
           l == lists[queueName]
       IN  (v \in Range(l) /\ requeueOrDelete(jobId, job, queueName, <<"delete">>)) =>
             /\ Len(lists'[queueName]) = Len(l) - 1
             /\ \E i \in 1..Len(l) :
                  /\ l[i] = v
                  /\ lists'[queueName] = SubSeq(l, 1, i - 1) \o SubSeq(l, i + 1, Len(l))
             /\ \A k \in ListKeys \ {queueName} : lists'[k] = lists[k]
             /\ hashes' = hashes]_vars

\* C3: a delete has removed one entry of a collection and left others in it
C3_Witness ==
  /\ resp.handler = "requeueOrDelete"
  /\ reply = [cmd |-> "LREM", n |-> 1]
  /\ resp.data.Location.queuename \in ListKeys
  /\ Len(lists[resp.data.Location.queuename]) >= 1

\* no entry of the collection queueName is the target (jobId, job), neither as
\* the stored text jobId:job, nor as the listed pair, nor as the bare job text
NotFound(jobId, job, queueName) ==
  \/ queueName \notin ListKeys
  \/ \A e \in Range(lists[queueName]) :
       /\ e # jobId \o <<":">> \o job
       /\ e # job
       /\ ~(EntryId(e) = jobId /\ EntryJob(e) = job)

\* C4: a delete or a requeue whose target is not in the named collection
\* changes nothing in the store
C4_NotFoundNoOp ==
  [][\A jobId \in JobIdParams, job \in JobParams,
        queueName \in AdminQueueNames, operation \in OperationParams :
       (requeueOrDelete(jobId, job, queueName, operation)
          /\ NotFound(jobId, job, queueName)) =>
         UNCHANGED store]_vars

\* C5: a requeue of an entry listed from Failed or Done puts into Pending an
\* entry with the payload of the source entry
C5_PayloadVerbatim ==
  [][ListPageShown /\ resp.data.Name \in FailedOrDone =>
       \A i \in 1..Len(resp.data.Jobs) :
         ListedRequest(i, <<"requeue">>) =>
           EntryPayload(Head(lists'[PendingOf(resp.data.Name)]))
             = EntryPayload(Listed(i))]_vars

\* C6: a requeue of a listed entry that embeds an id puts into Pending an
\* entry that embeds the same id
C6_IdPrefixKept ==
  [][ListPageShown /\ resp.data.Name \in FailedOrDone =>
       \A i \in 1..Len(resp.data.Jobs) :
         (ListedRequest(i, <<"requeue">>) /\ EntryId(Listed(i)) # NoText) =>
           EntryId(Head(lists'[PendingOf(resp.data.Name)])) = EntryId(Listed(i))]_vars

ReadHandlers == {"homepage", "getWorkers", "showQueuePreview", "inspectQueue", "inspectJob"}

\* C7: a request to homepage, getWorkers, showQueuePreview, inspectQueue or
\* inspectJob leaves the lists and the hashes of the store as they are; a step
\* that changes them is a request to requeueOrDelete
C7_ReadOnly ==
  [][/\ resp'.handler \in ReadHandlers => UNCHANGED store
     /\ store' # store => resp'.handler = "requeueOrDelete"]_vars

\* C7: a page of a non-empty collection is shown after a requeue changed the store
C7_Witness ==
  /\ resp.handler = "inspectQueue"
  /\ Len(resp.data.Jobs) > 0
  /\ reply.cmd = "LPUSH"

\* C9: a page of a list collection holds at most jobsRange entries, PrevStart
\* is never negative, and the page behind NextStart starts with the entry
\* after the last one of the page shown and repeats none of its entries
C9_Pagination ==
  [][(resp'.handler = "inspectQueue" /\ resp'.data.Name \in ListKeys) =>
       /\ Len(resp'.data.Jobs) <= jobsRange
       /\ resp'.data.PrevStart >= 0
       /\ (ListPageShown /\ resp'.data.Name = resp.data.Name
             /\ resp'.data.NextStart = resp.data.NextStart + jobsRange) =>
            /\ Range(resp.data.JobsID) \cap Range(resp'.data.JobsID) = {}
            /\ LET l == lists[resp.data.Name]
                   shown == resp.data.NextStart - jobsRange + Len(resp.data.Jobs)
               IN  /\ Len(resp'.data.JobsID) = Max(0, Min(jobsRange, Len(l) - shown))
                   /\ \A i \in 1..Len(resp'.data.JobsID) :
                        resp'.data.JobsID[i] = EntryId(l[shown + i])]_vars

\* C10: a delete carrying the jobid and the job of a row of the page shown
\* removes the entry behind that row
C10_ListDeleteRoundTrip ==
  [][ListPageShown =>
       \A i \in 1..Len(resp.data.Jobs) :
         ListedRequest(i, <<"delete">>) =>
           Count(lists'[resp.data.Name], Listed(i))
             = Count(lists[resp.data.Name], Listed(i)) - 1]_vars

====
